---- MODULE Spec2Model ----
(***************************************************************************)
(* A model of src/src/droppable.ts: the Droppable class, which binds a     *)
(* host element and a hidden file input, normalises drop and change events *)
(* into one file list and hands that list to a 'drop' event of an event    *)
(* emitter.                                                                *)
(*                                                                         *)
(* The event emitter (the package 'noel') and the DOM are collaborators    *)
(* whose code is not part of droppable.ts.  The model records what         *)
(* droppable.ts asks of them: the listeners it adds to and removes from    *)
(* elements, the attributes and classes it sets, the calls to emit() and   *)
(* on() of the 'drop' event, and the calls to click() of the hidden input. *)
(***************************************************************************)
EXTENDS Integers, Sequences, FiniteSets, TLC

\* ------------------------------------------------------------------ bounds
\* Longest native file collection an event carries.
MaxFiles == 3
\* Number of distinct listeners the host application may subscribe.
MaxListeners == 1

\* ------------------------------------------------------ JavaScript values
Undefined == [tag |-> "undefined"]

Bool(b) == [tag |-> "boolean", val |-> b]

Str(s) == [tag |-> "string", val |-> s]

\* typeof v
TypeOf(v) == v.tag

\* the truth value JavaScript gives v in a condition (if (v), !v, v || w)
Truthy(v) ==
    CASE v.tag = "undefined" -> FALSE
      [] v.tag = "boolean"   -> v.val
      [] v.tag = "string"    -> v.val # ""
      [] OTHER               -> TRUE

\* Boolean.prototype.toString
BoolToString(b) == IF b THEN "true" ELSE "false"

\* ------------------------------------------------------------- file lists
\* Opaque file handles.
Files == {"f1", "f2"}

\* A native FileList: an array-like object, indexed from 0, with a length.
\* The collections events carry here: for every length up to MaxFiles and
\* every first file, the list that alternates the two files from there
\* (<<f1, f2, f1>>, <<f2, f1, f2>>, ...): every length, both orders, and,
\* from length 3 on, a file that occurs twice.
Alternating(first, n) ==
    [tag |-> "FileList", length |-> n,
     item |-> [i \in 0 .. n - 1 |-> IF i % 2 = 0 THEN first ELSE CHOOSE f \in Files : f # first]]

FileLists == { Alternating(first, n) : first \in Files, n \in 0 .. MaxFiles }

\* A slip for ArrayFrom: Array.from(files || []), which turns a missing
\* collection into an empty list instead of throwing.
ArrayFromOrEmpty(files) ==
    IF files.tag = "undefined"
    THEN [tag |-> "array", val |-> <<>>]
    ELSE [tag |-> "array", val |-> [i \in 1 .. files.length |-> files.item[i - 1]]]

\* Array.from(files): the array of files[0] .. files[length - 1], in that
\* order.  Arrays are modelled as sequences (indexed from 1).  Array.from of
\* undefined throws a TypeError, modelled by the tag "TypeError".
ArrayFrom(files) ==
    IF files.tag = "undefined"
    THEN [tag |-> "TypeError"]
    ELSE [tag |-> "array", val |-> [i \in 1 .. files.length |-> files.item[i - 1]]]

\* An object that may carry a file collection in its `files` property: a
\* DataTransfer, or an event target (an input has `files`, a div has not).
WithFiles == { [tag |-> "object", files |-> f] : f \in {Undefined} \cup FileLists }

\* The events a handler may be handed, by their `dataTransfer` and `target`:
\* without a dataTransfer, every target; with a dataTransfer, no target, or
\* an input whose own selection is the single file f2.
Events ==
    [dataTransfer : {Undefined}, target : {Undefined} \cup WithFiles]
    \cup
    [dataTransfer : WithFiles,
     target : {Undefined, [tag |-> "object", files |-> Alternating("f2", 1)]}]

\* ---------------------------------------------------------- configuration
\* The class lists a host element may have when it is handed over.
ElementClassLists == {{}, {"dragover"}}

Elements == { [tag |-> "element", classes |-> c] : c \in ElementClassLists }

\* What a caller may pass for an optional boolean setting.
FlagValues == {Undefined, Bool(TRUE), Bool(FALSE), Str("false")}

\* NoelConfig values a caller may pass as eventConfig.
EventConfigs ==
    {Undefined,
     [tag |-> "object", replay |-> FALSE, replayBufferSize |-> 2]}

\* The arguments of `new Droppable(config)`: no configuration at all, or an
\* object (DroppableSettings, its fields possibly missing).
Configs ==
    {Undefined} \cup
    [tag : {"object"},
     element : {Undefined} \cup Elements,
     isClickable : FlagValues,
     acceptsMultipleFiles : FlagValues,
     appendStatusClasses : FlagValues,
     eventConfig : EventConfigs]

\* config = config || {}
EmptyConfig ==
    [tag |-> "object", element |-> Undefined, isClickable |-> Undefined,
     acceptsMultipleFiles |-> Undefined, appendStatusClasses |-> Undefined,
     eventConfig |-> Undefined]

OrEmpty(config) == IF Truthy(config) THEN config ELSE EmptyConfig

\* A slip for BooleanOrTrue: v || true, which turns an explicit false into true.
BooleanOrTrueByOr(v) == IF Truthy(v) /\ TypeOf(v) = "boolean" THEN v.val ELSE TRUE

\* typeof v === 'boolean' ? v : true
BooleanOrTrue(v) == IF TypeOf(v) = "boolean" THEN v.val ELSE TRUE

\* config.eventConfig || { replay: true, replayBufferSize: 1 }
ReplayBufferSize == 1

DefaultEventConfig == [tag |-> "object", replay |-> TRUE, replayBufferSize |-> ReplayBufferSize]

EventConfigOrDefault(c) == IF Truthy(c) THEN c ELSE DefaultEventConfig

\* The listeners the host application may pass to onFilesDropped.
Listeners == 1 .. MaxListeners

\* ------------------------------------------------------- event listeners
\* A function object: the method `fn` of the class, as written in the class
\* (boundThis = FALSE) or as returned by fn.bind(this) (boundThis = TRUE).
\* bind returns a new function object, never the function it was called on.
Method(name) == [fn |-> name, boundThis |-> FALSE]

Bind(f) == [fn |-> f.fn, boundThis |-> TRUE]

\* getElementEventsDictionary
ElementEventsDictionary ==
    [eventName \in {"dragover", "dragleave", "drop", "click"} |->
        CASE eventName = "dragover"  -> Method("onElementDragOver")
          [] eventName = "dragleave" -> Method("onElementDragLeave")
          [] eventName = "drop"      -> Method("onElementDrop")
          [] eventName = "click"     -> Method("onElementClick")]

\* getVirtualInputElementEventsDictionary
VirtualInputElementEventsDictionary ==
    [eventName \in {"change"} |-> Method("onVirtualInputElementChange")]

Binding(target, eventName, listener) ==
    [target |-> target, eventName |-> eventName, listener |-> listener]

\* registerElementEventsWithDictionary: the listeners it adds to `target`
\* and the function it returns, given as the removeEventListener calls that
\* function makes.
RegisterElementEventsWithDictionary(target, dictionary) ==
    [added    |-> { Binding(target, n, Bind(dictionary[n])) : n \in DOMAIN dictionary },
     removals |-> { Binding(target, n, dictionary[n]) : n \in DOMAIN dictionary }]

\* registerElementEvents
RegisterElementEvents ==
    RegisterElementEventsWithDictionary("element", ElementEventsDictionary)

\* registerVirtualInputElementEvents
RegisterVirtualInputElementEvents ==
    RegisterElementEventsWithDictionary("virtualInputElement", VirtualInputElementEventsDictionary)

\* EventTarget.removeEventListener: removes the listener that is the same
\* function object for the same event name, and does nothing if there is none.
RemoveEventListeners(installed, removals) == installed \ removals

\* The listeners a native event `eventName` on `target` invokes.
ListenersFor(installed, target, eventName) ==
    { b.listener.fn : b \in { c \in installed : c.target = target /\ c.eventName = eventName } }

\* ------------------------------------------------------------------ state
VARIABLES
    phase,                \* "new": before the constructor ran; "constructed"; "failed": it threw
    isClickable,          \* this.isClickable
    appendStatusClasses,  \* this.appendStatusClasses
    virtualInputElement,  \* this.virtualInputElement: Undefined, or the hidden input
    eventEmitter,         \* this.eventEmitter: Undefined, or the emitter with its configuration
    element,              \* this.element: Undefined, or the host element
    bindings,             \* the listeners installed on the two elements
    elementEventsRemover, \* this.elementEventsRemover: the removals it makes
    virtualInputElementEventsRemover, \* this.virtualInputElementEventsRemover: likewise
    latestDroppedFiles,   \* this.latestDroppedFiles: Undefined, or an array
    lastEmitted,          \* payload of the latest filesWereDroppedEvent.emit call, Undefined if none
    onCalls,              \* listeners handed to filesWereDroppedEvent.on so far
    lastOp,               \* the operation or native event handled last, with its input
    thrown,               \* what the last operation threw, "" if it returned
    opEmits,              \* payloads of the emit calls the last operation made, in order
    emitSaw,              \* what getLatestDroppedFiles returned during each of those calls
    pickerClicks,         \* number of virtualInputElement.click() calls the last operation made
    suppressed,           \* the last native event had preventDefault and stopPropagation called
    cleanedUp             \* cleanUp has been called

vars ==
    <<phase, isClickable, appendStatusClasses, virtualInputElement, eventEmitter,
      element, bindings, elementEventsRemover, virtualInputElementEventsRemover,
      latestDroppedFiles, lastEmitted, onCalls, lastOp, thrown, opEmits, emitSaw,
      pickerClicks, suppressed, cleanedUp>>

\* private dragOverClass = 'dragover'
DragOverClass == "dragover"

Init ==
    /\ phase = "new"
    /\ isClickable = Undefined
    /\ appendStatusClasses = Undefined
    /\ virtualInputElement = Undefined
    /\ eventEmitter = Undefined
    /\ element = Undefined
    /\ bindings = {}
    /\ elementEventsRemover = Undefined
    /\ virtualInputElementEventsRemover = Undefined
    /\ latestDroppedFiles = Undefined
    /\ lastEmitted = Undefined
    /\ onCalls = {}
    /\ lastOp = [op |-> "none"]
    /\ thrown = ""
    /\ opEmits = <<>>
    /\ emitSaw = <<>>
    /\ pickerClicks = 0
    /\ suppressed = FALSE
    /\ cleanedUp = FALSE

\* What an operation that neither throws, emits nor opens the picker records.
Quiet(op) ==
    /\ lastOp' = op
    /\ thrown' = ""
    /\ opEmits' = <<>> /\ emitSaw' = <<>>
    /\ pickerClicks' = 0
    /\ suppressed' = FALSE

\* ------------------------------------------------------------ constructor
\* makeVirtualInputElement: <input type="file" style="display: none">
MakeVirtualInputElement ==
    [tag |-> "input", attributes |-> {<<"type", "file">>}, display |-> "none"]

\* Element.setAttribute(name, value): sets the attribute, replacing its value.
SetAttribute(input, name, value) ==
    [input EXCEPT !.attributes = { a \in @ : a[1] # name } \cup {<<name, value>>}]

\* setAcceptsMultipleFiles, on a given input
WithMultiple(input, acceptsMultipleFiles) ==
    SetAttribute(input, "multiple", BoolToString(acceptsMultipleFiles))

\* A slip for Constructor: the hidden input is made before the element check.
ConstructorLateCheck(config) ==
    /\ phase = "new"
    /\ LET c == OrEmpty(config) IN
       IF ~Truthy(c.element)
       THEN /\ phase' = "failed"
            /\ virtualInputElement' = MakeVirtualInputElement
            /\ lastOp' = [op |-> "constructor", config |-> config]
            /\ thrown' = "config.element: HTMLElement is required"
            /\ opEmits' = <<>> /\ emitSaw' = <<>>
            /\ pickerClicks' = 0
            /\ suppressed' = FALSE
            /\ UNCHANGED <<isClickable, appendStatusClasses, eventEmitter, element,
                           bindings, elementEventsRemover,
                           virtualInputElementEventsRemover, latestDroppedFiles,
                           lastEmitted, onCalls, cleanedUp>>
       ELSE /\ phase' = "constructed"
            /\ virtualInputElement' =
                   WithMultiple(MakeVirtualInputElement, BooleanOrTrue(c.acceptsMultipleFiles))
            /\ isClickable' = Bool(BooleanOrTrue(c.isClickable))
            /\ appendStatusClasses' = Bool(BooleanOrTrue(c.appendStatusClasses))
            /\ eventEmitter' = [tag |-> "Noel", config |-> EventConfigOrDefault(c.eventConfig)]
            /\ element' = c.element
            /\ bindings' = RegisterElementEvents.added \cup RegisterVirtualInputElementEvents.added
            /\ elementEventsRemover' =
                   [tag |-> "function", removals |-> RegisterElementEvents.removals]
            /\ virtualInputElementEventsRemover' =
                   [tag |-> "function", removals |-> RegisterVirtualInputElementEvents.removals]
            /\ Quiet([op |-> "constructor", config |-> config])
            /\ UNCHANGED <<latestDroppedFiles, lastEmitted, onCalls, cleanedUp>>

\* new Droppable(config)
Constructor(config) ==
    /\ phase = "new"
    /\ LET c == OrEmpty(config) IN
       IF ~Truthy(c.element)
       THEN /\ phase' = "failed"
            /\ lastOp' = [op |-> "constructor", config |-> config]
            /\ thrown' = "config.element: HTMLElement is required"
            /\ opEmits' = <<>> /\ emitSaw' = <<>>
            /\ pickerClicks' = 0
            /\ suppressed' = FALSE
            /\ UNCHANGED <<isClickable, appendStatusClasses, virtualInputElement,
                           eventEmitter, element, bindings, elementEventsRemover,
                           virtualInputElementEventsRemover, latestDroppedFiles,
                           lastEmitted, onCalls, cleanedUp>>
       ELSE /\ phase' = "constructed"
            /\ virtualInputElement' =
                   WithMultiple(MakeVirtualInputElement, BooleanOrTrue(c.acceptsMultipleFiles))
            /\ isClickable' = Bool(BooleanOrTrue(c.isClickable))
            /\ appendStatusClasses' = Bool(BooleanOrTrue(c.appendStatusClasses))
            /\ eventEmitter' = [tag |-> "Noel", config |-> EventConfigOrDefault(c.eventConfig)]
            /\ element' = c.element
            /\ bindings' = RegisterElementEvents.added \cup RegisterVirtualInputElementEvents.added
            /\ elementEventsRemover' =
                   [tag |-> "function", removals |-> RegisterElementEvents.removals]
            /\ virtualInputElementEventsRemover' =
                   [tag |-> "function", removals |-> RegisterVirtualInputElementEvents.removals]
            /\ Quiet([op |-> "constructor", config |-> config])
            /\ UNCHANGED <<latestDroppedFiles, lastEmitted, onCalls, cleanedUp>>

\* ------------------------------------------------------ public operations
\* getLatestDroppedFiles
GetLatestDroppedFiles ==
    IF Truthy(latestDroppedFiles) THEN latestDroppedFiles.val ELSE <<>>

\* onFilesDropped(listener): hands the listener to the 'drop' event's on()
OnFilesDropped(listener) ==
    /\ phase = "constructed"
    /\ onCalls' = onCalls \cup {listener}
    /\ Quiet([op |-> "onFilesDropped", listener |-> listener])
    /\ UNCHANGED <<phase, isClickable, appendStatusClasses, virtualInputElement,
                   eventEmitter, element, bindings, elementEventsRemover,
                   virtualInputElementEventsRemover, latestDroppedFiles, lastEmitted,
                   cleanedUp>>

\* A slip for CleanUp: the removers are used up by the first call, so a
\* second call throws.
CleanUpThrowingAgain ==
    /\ phase = "constructed"
    /\ bindings' = RemoveEventListeners(
                       RemoveEventListeners(bindings, elementEventsRemover.removals),
                       virtualInputElementEventsRemover.removals)
    /\ cleanedUp' = TRUE
    /\ lastOp' = [op |-> "cleanUp", again |-> cleanedUp]
    /\ thrown' = IF cleanedUp THEN "TypeError" ELSE ""
    /\ opEmits' = <<>> /\ emitSaw' = <<>>
    /\ pickerClicks' = 0
    /\ suppressed' = FALSE
    /\ UNCHANGED <<phase, isClickable, appendStatusClasses, virtualInputElement,
                   eventEmitter, element, elementEventsRemover,
                   virtualInputElementEventsRemover, latestDroppedFiles, lastEmitted,
                   onCalls>>

\* A slip for CleanUp: it also forgets the list held.
CleanUpForgetting ==
    /\ phase = "constructed"
    /\ bindings' = RemoveEventListeners(
                       RemoveEventListeners(bindings, elementEventsRemover.removals),
                       virtualInputElementEventsRemover.removals)
    /\ cleanedUp' = TRUE
    /\ latestDroppedFiles' = Undefined
    /\ Quiet([op |-> "cleanUp", again |-> cleanedUp])
    /\ UNCHANGED <<phase, isClickable, appendStatusClasses, virtualInputElement,
                   eventEmitter, element, elementEventsRemover,
                   virtualInputElementEventsRemover, lastEmitted, onCalls>>

\* cleanUp; the record of the call says whether cleanUp had been called before
CleanUp ==
    /\ phase = "constructed"
    /\ bindings' = RemoveEventListeners(
                       RemoveEventListeners(bindings, elementEventsRemover.removals),
                       virtualInputElementEventsRemover.removals)
    /\ cleanedUp' = TRUE
    /\ Quiet([op |-> "cleanUp", again |-> cleanedUp])
    /\ UNCHANGED <<phase, isClickable, appendStatusClasses, virtualInputElement,
                   eventEmitter, element, elementEventsRemover,
                   virtualInputElementEventsRemover, latestDroppedFiles, lastEmitted,
                   onCalls>>

\* A slip for PromptForFilesStep: the picker opens only when isClickable is set.
PromptForFilesStepGated == pickerClicks' = IF Truthy(isClickable) THEN 1 ELSE 0

\* promptForFiles, as a step of an operation: one virtualInputElement.click()
PromptForFilesStep == pickerClicks' = 1

\* promptForFiles
PromptForFiles ==
    /\ phase = "constructed"
    /\ PromptForFilesStep
    /\ lastOp' = [op |-> "promptForFiles"]
    /\ thrown' = ""
    /\ opEmits' = <<>> /\ emitSaw' = <<>>
    /\ suppressed' = FALSE
    /\ UNCHANGED <<phase, isClickable, appendStatusClasses, virtualInputElement,
                   eventEmitter, element, bindings, elementEventsRemover,
                   virtualInputElementEventsRemover, latestDroppedFiles, lastEmitted,
                   onCalls, cleanedUp>>

\* setIsClickable
SetIsClickable(clickable) ==
    /\ phase = "constructed"
    /\ isClickable' = Bool(clickable)
    /\ Quiet([op |-> "setIsClickable", value |-> clickable])
    /\ UNCHANGED <<phase, appendStatusClasses, virtualInputElement, eventEmitter,
                   element, bindings, elementEventsRemover,
                   virtualInputElementEventsRemover, latestDroppedFiles, lastEmitted,
                   onCalls, cleanedUp>>

\* setAcceptsMultipleFiles
SetAcceptsMultipleFiles(acceptsMultipleFiles) ==
    /\ phase = "constructed"
    /\ virtualInputElement' = WithMultiple(virtualInputElement, acceptsMultipleFiles)
    /\ Quiet([op |-> "setAcceptsMultipleFiles", value |-> acceptsMultipleFiles])
    /\ UNCHANGED <<phase, isClickable, appendStatusClasses, eventEmitter, element,
                   bindings, elementEventsRemover, virtualInputElementEventsRemover,
                   latestDroppedFiles, lastEmitted, onCalls, cleanedUp>>

\* setAppendStatusClasses
SetAppendStatusClasses(append) ==
    /\ phase = "constructed"
    /\ appendStatusClasses' = Bool(append)
    /\ Quiet([op |-> "setAppendStatusClasses", value |-> append])
    /\ UNCHANGED <<phase, isClickable, virtualInputElement, eventEmitter, element,
                   bindings, elementEventsRemover, virtualInputElementEventsRemover,
                   latestDroppedFiles, lastEmitted, onCalls, cleanedUp>>

\* ---------------------------------------------------------- file handling
\* A slip for FilesOf: the target is asked before the dataTransfer.
FilesOfTargetFirst(event) ==
    IF Truthy(event.target) THEN event.target.files
    ELSE IF Truthy(event.dataTransfer) THEN event.dataTransfer.files
    ELSE [tag |-> "Error", message |-> "Fired event contains no files"]

\* onDroppableElementChange, lines 160-167: the file collection the event
\* carries, from its dataTransfer if it has one, else from its target; the
\* Error thrown when it has neither.
FilesOf(event) ==
    IF Truthy(event.dataTransfer) THEN event.dataTransfer.files
    ELSE IF Truthy(event.target) THEN event.target.files
    ELSE [tag |-> "Error", message |-> "Fired event contains no files"]

\* emitFilesWereDropped: one emit call on the 'drop' event
EmitFilesWereDropped(files) ==
    /\ lastEmitted' = files
    /\ opEmits' = <<files>>

\* What a getLatestDroppedFiles call made while emit runs returns, the field
\* latestDroppedFiles holding `held` when emit is called.
DuringEmit(held) ==
    emitSaw' = << IF Truthy(held) THEN held.val ELSE <<>> >>

\* A slip for SetLatestDrop: an empty selection is stored but not announced.
SetLatestDropUnlessEmpty(files) ==
    /\ latestDroppedFiles' = files
    /\ IF files.val = <<>>
       THEN opEmits' = <<>> /\ emitSaw' = <<>> /\ UNCHANGED lastEmitted
       ELSE EmitFilesWereDropped(files) /\ DuringEmit(files)

\* A slip for SetLatestDrop: the list is emitted first and stored afterwards.
SetLatestDropEmitFirst(files) ==
    /\ EmitFilesWereDropped(files)
    /\ DuringEmit(latestDroppedFiles)
    /\ latestDroppedFiles' = files

\* A slip for SetLatestDrop: the new files are appended to the list held.
SetLatestDropAppending(files) ==
    LET all == [tag |-> "array",
                val |-> (IF Truthy(latestDroppedFiles) THEN latestDroppedFiles.val ELSE <<>>)
                            \o files.val]
    IN  /\ latestDroppedFiles' = all
        /\ EmitFilesWereDropped(all)
        /\ DuringEmit(all)

\* A slip for SetLatestDrop: an input that is not `multiple` keeps one file.
SetLatestDropSingle(files) ==
    LET kept == IF <<"multiple", "false">> \in virtualInputElement.attributes
                      /\ Len(files.val) > 1
                THEN [tag |-> "array", val |-> <<files.val[1]>>]
                ELSE files
    IN  /\ latestDroppedFiles' = kept
        /\ EmitFilesWereDropped(kept)
        /\ DuringEmit(kept)

\* setLatestDrop: the assignment, then the emit call, which runs with the
\* field already holding `files`
SetLatestDrop(files) ==
    /\ latestDroppedFiles' = files
    /\ EmitFilesWereDropped(files)
    /\ DuringEmit(files)

\* A slip for OnDroppableElementChange: the list held is dropped before the
\* event is looked at, so a failing event loses it.
OnDroppableElementChangeResetting(event) ==
    LET files == FilesOf(event) IN
    IF files.tag = "Error"
    THEN /\ thrown' = files.message
         /\ opEmits' = <<>> /\ emitSaw' = <<>>
         /\ latestDroppedFiles' = Undefined
         /\ UNCHANGED lastEmitted
    ELSE LET filesArray == ArrayFrom(files) IN
         IF filesArray.tag = "TypeError"
         THEN /\ thrown' = "TypeError"
              /\ opEmits' = <<>> /\ emitSaw' = <<>>
              /\ latestDroppedFiles' = Undefined
              /\ UNCHANGED lastEmitted
         ELSE /\ thrown' = ""
              /\ SetLatestDrop(filesArray)

\* A slip for OnDroppableElementChange: an empty collection is refused like
\* a missing one.
OnDroppableElementChangeRejectingEmpty(event) ==
    LET files == FilesOf(event) IN
    IF files.tag = "Error"
    THEN /\ thrown' = files.message
         /\ opEmits' = <<>> /\ emitSaw' = <<>>
         /\ UNCHANGED <<latestDroppedFiles, lastEmitted>>
    ELSE LET filesArray == ArrayFrom(files) IN
         IF filesArray.tag = "TypeError" \/ filesArray.val = <<>>
         THEN /\ thrown' = "TypeError"
              /\ opEmits' = <<>> /\ emitSaw' = <<>>
              /\ UNCHANGED <<latestDroppedFiles, lastEmitted>>
         ELSE /\ thrown' = ""
              /\ SetLatestDrop(filesArray)

\* onDroppableElementChange
OnDroppableElementChange(event) ==
    LET files == FilesOf(event) IN
    IF files.tag = "Error"
    THEN /\ thrown' = files.message
         /\ opEmits' = <<>> /\ emitSaw' = <<>>
         /\ UNCHANGED <<latestDroppedFiles, lastEmitted>>
    ELSE LET filesArray == ArrayFrom(files) IN
         IF filesArray.tag = "TypeError"
         THEN /\ thrown' = "TypeError"
              /\ opEmits' = <<>> /\ emitSaw' = <<>>
              /\ UNCHANGED <<latestDroppedFiles, lastEmitted>>
         ELSE /\ thrown' = ""
              /\ SetLatestDrop(filesArray)

\* ---------------------------------------------------------- native events
\* DOMTokenList.add / remove on the host element's class list
ClassListAdd(el, class) == [el EXCEPT !.classes = @ \cup {class}]

ClassListRemove(el, class) == [el EXCEPT !.classes = @ \ {class}]

\* A native event that finds no listener installed: nothing runs.
NoListener ==
    /\ thrown' = ""
    /\ opEmits' = <<>> /\ emitSaw' = <<>>
    /\ pickerClicks' = 0
    /\ suppressed' = FALSE
    /\ UNCHANGED <<element, latestDroppedFiles, lastEmitted>>

\* A slip for OnElementDragOver: the class is added only when
\* appendStatusClasses is set.
OnElementDragOverGated ==
    /\ suppressed' = TRUE
    /\ element' = IF Truthy(appendStatusClasses)
                  THEN ClassListAdd(element, DragOverClass) ELSE element
    /\ thrown' = ""
    /\ opEmits' = <<>> /\ emitSaw' = <<>>
    /\ pickerClicks' = 0
    /\ UNCHANGED <<latestDroppedFiles, lastEmitted>>

\* onElementDragOver
OnElementDragOver ==
    /\ suppressed' = TRUE
    /\ element' = ClassListAdd(element, DragOverClass)
    /\ thrown' = ""
    /\ opEmits' = <<>> /\ emitSaw' = <<>>
    /\ pickerClicks' = 0
    /\ UNCHANGED <<latestDroppedFiles, lastEmitted>>

\* onElementDragLeave
OnElementDragLeave ==
    /\ suppressed' = TRUE
    /\ element' = ClassListRemove(element, DragOverClass)
    /\ thrown' = ""
    /\ opEmits' = <<>> /\ emitSaw' = <<>>
    /\ pickerClicks' = 0
    /\ UNCHANGED <<latestDroppedFiles, lastEmitted>>

\* onElementDrop
OnElementDrop(e) ==
    /\ suppressed' = TRUE
    /\ element' = ClassListRemove(element, DragOverClass)
    /\ OnDroppableElementChange(e)
    /\ pickerClicks' = 0

\* A slip for OnElementClick: the click opens the picker whatever isClickable is.
OnElementClickAlways ==
    /\ PromptForFilesStep
    /\ thrown' = ""
    /\ opEmits' = <<>> /\ emitSaw' = <<>>
    /\ suppressed' = FALSE
    /\ UNCHANGED <<element, latestDroppedFiles, lastEmitted>>

\* onElementClick
OnElementClick ==
    /\ IF Truthy(isClickable) THEN PromptForFilesStep ELSE pickerClicks' = 0
    /\ thrown' = ""
    /\ opEmits' = <<>> /\ emitSaw' = <<>>
    /\ suppressed' = FALSE
    /\ UNCHANGED <<element, latestDroppedFiles, lastEmitted>>

\* onVirtualInputElementChange
OnVirtualInputElementChange(e) ==
    /\ OnDroppableElementChange(e)
    /\ pickerClicks' = 0
    /\ suppressed' = FALSE
    /\ UNCHANGED element

\* What no native event changes.
EventFrame ==
    UNCHANGED <<phase, isClickable, appendStatusClasses, virtualInputElement,
                eventEmitter, bindings, elementEventsRemover,
                virtualInputElementEventsRemover, onCalls, cleanedUp>>

\* a dragover event on the host element
DragOver ==
    /\ phase = "constructed"
    /\ lastOp' = [op |-> "dragover"]
    /\ IF "onElementDragOver" \in ListenersFor(bindings, "element", "dragover")
       THEN OnElementDragOver ELSE NoListener
    /\ EventFrame

\* a dragleave event on the host element
DragLeave ==
    /\ phase = "constructed"
    /\ lastOp' = [op |-> "dragleave"]
    /\ IF "onElementDragLeave" \in ListenersFor(bindings, "element", "dragleave")
       THEN OnElementDragLeave ELSE NoListener
    /\ EventFrame

\* a drop event e on the host element
Drop(e) ==
    /\ phase = "constructed"
    /\ lastOp' = [op |-> "drop", event |-> e]
    /\ IF "onElementDrop" \in ListenersFor(bindings, "element", "drop")
       THEN OnElementDrop(e) ELSE NoListener
    /\ EventFrame

\* a click event on the host element
Click ==
    /\ phase = "constructed"
    /\ lastOp' = [op |-> "click"]
    /\ IF "onElementClick" \in ListenersFor(bindings, "element", "click")
       THEN OnElementClick ELSE NoListener
    /\ EventFrame

\* a change event e on the hidden input
Change(e) ==
    /\ phase = "constructed"
    /\ lastOp' = [op |-> "change", event |-> e]
    /\ IF "onVirtualInputElementChange" \in ListenersFor(bindings, "virtualInputElement", "change")
       THEN OnVirtualInputElementChange(e) ELSE NoListener
    /\ EventFrame

\* ---------------------------------------------------------- specification
Next ==
    \/ \E config \in Configs : Constructor(config)
    \/ \E listener \in Listeners : OnFilesDropped(listener)
    \/ CleanUp
    \/ PromptForFiles
    \/ \E b \in BOOLEAN : SetIsClickable(b)
    \/ \E b \in BOOLEAN : SetAcceptsMultipleFiles(b)
    \/ \E b \in BOOLEAN : SetAppendStatusClasses(b)
    \/ DragOver
    \/ DragLeave
    \/ \E e \in Events : Drop(e)
    \/ Click
    \/ \E e \in Events : Change(e)

Spec == Init /\ [][Next]_vars

\* ----------------------------------------------------------------- claims
\* What the claims read off an event and off the instance.

\* The native events and the two that carry files.
NativeEvents == {"dragover", "dragleave", "drop", "click", "change"}

FileEvents == {"drop", "change"}

\* The file collection a native event delivers: a drop delivers the files of
\* its drag payload, a change (which has no drag payload) the files selected
\* in its target.
Delivers(op) ==
    IF op.op = "drop" /\ op.event.dataTransfer.tag = "object"
    THEN op.event.dataTransfer.files
    ELSE IF op.op = "change" /\ op.event.dataTransfer.tag = "undefined"
            /\ op.event.target.tag = "object"
    THEN op.event.target.files
    ELSE Undefined

\* The array `a` holds the files of the collection F, in F's order.
SameFiles(a, F) ==
    /\ Len(a) = F.length
    /\ \A i \in 1 .. Len(a) : a[i] = F.item[i - 1]

\* The text of the hidden input's `multiple` attribute.
MultipleText == { a[2] : a \in { b \in virtualInputElement.attributes : b[1] = "multiple" } }

\* C1: the list getLatestDroppedFiles returns is the payload of the latest
\* emit on the 'drop' event, and the empty list while nothing was emitted.
C1_LatestIsLastEmitted ==
    GetLatestDroppedFiles = IF lastEmitted.tag = "array" THEN lastEmitted.val ELSE <<>>

\* C1 witness: a list of two files was emitted, and a later event failed.
C1_Witness ==
    /\ lastEmitted.tag = "array"
    /\ Len(lastEmitted.val) = 2
    /\ thrown # ""
    /\ cleanedUp
    /\ onCalls # {}

\* C2: a drop or change that delivers the file collection F leaves
\* getLatestDroppedFiles equal to F, file by file in F's order, whatever the
\* list was before, and makes exactly one emit call, with that list.
C2_DeliveredListStoredAndEmittedOnce ==
    (lastOp.op \in FileEvents /\ Delivers(lastOp).tag = "FileList") =>
        /\ SameFiles(GetLatestDroppedFiles, Delivers(lastOp))
        /\ Len(opEmits) = 1
        /\ SameFiles(opEmits[1].val, Delivers(lastOp))

\* C2 witness: a change delivered <<f2, f1>>, which is what is held now.
C2_Witness ==
    /\ lastOp.op = "change"
    /\ Delivers(lastOp).tag = "FileList"
    /\ GetLatestDroppedFiles = <<"f2", "f1">>
    /\ Len(opEmits) = 1

\* C4: once cleanUp was called no listener is left on either element, and
\* no native event emits or changes the latest list.
C4_NothingAfterCleanUp ==
    [][(cleanedUp /\ lastOp'.op \in NativeEvents) =>
          /\ bindings = {}
          /\ opEmits' = <<>> /\ emitSaw' = <<>>
          /\ lastEmitted' = lastEmitted
          /\ latestDroppedFiles' = latestDroppedFiles]_vars

\* C5: a drop or change either succeeds (nothing thrown, one emit, its
\* payload the list now held) or fails (an error thrown, no emit, the list
\* held and the last payload untouched); an event with neither a drag
\* payload nor a target fails.
C5_AllOrNothing ==
    [][lastOp'.op \in FileEvents =>
          /\ \/ /\ thrown' = ""
                /\ Len(opEmits') = 1
                /\ latestDroppedFiles' = opEmits'[1]
                /\ lastEmitted' = opEmits'[1]
             \/ /\ thrown' # ""
                /\ opEmits' = <<>> /\ emitSaw' = <<>>
                /\ latestDroppedFiles' = latestDroppedFiles
                /\ lastEmitted' = lastEmitted
          /\ (lastOp'.event.dataTransfer.tag = "undefined"
                /\ lastOp'.event.target.tag = "undefined") => thrown' # ""]_vars

\* C5 witness: an event with neither field failed while a list was held.
C5_Witness ==
    /\ lastOp.op \in FileEvents
    /\ lastOp.event.dataTransfer.tag = "undefined"
    /\ lastOp.event.target.tag = "undefined"
    /\ thrown # ""
    /\ Len(GetLatestDroppedFiles) = 2

\* C6: after a successful construction each of the three settings is true
\* when the configuration left it out and is the boolean given otherwise
\* (acceptsMultipleFiles as the text the hidden input's `multiple` attribute
\* is given), and getLatestDroppedFiles returns the empty list.
C6_Defaults ==
    (lastOp.op = "constructor" /\ phase = "constructed") =>
        LET c == lastOp.config
            Started(given, value) ==
                /\ given.tag = "undefined" => value = TRUE
                /\ given.tag = "boolean" => value = given.val
        IN  /\ Started(c.isClickable, isClickable.val)
            /\ Started(c.appendStatusClasses, appendStatusClasses.val)
            /\ Started(c.acceptsMultipleFiles, MultipleText = {"true"})
            /\ c.acceptsMultipleFiles.tag = "boolean" =>
                   MultipleText = {IF c.acceptsMultipleFiles.val THEN "true" ELSE "false"}
            /\ GetLatestDroppedFiles = <<>>

\* C6 witness: constructed from a configuration that has only the element.
C6_Witness ==
    /\ lastOp.op = "constructor"
    /\ phase = "constructed"
    /\ lastOp.config.isClickable.tag = "undefined"
    /\ lastOp.config.acceptsMultipleFiles.tag = "undefined"
    /\ lastOp.config.appendStatusClasses.tag = "undefined"
    /\ lastOp.config.eventConfig.tag = "undefined"

\* C7: a construction without a configuration or without an element throws
\* and leaves no hidden input, no emitter and no listener behind.
C7_FailedConstructionHasNoEffect ==
    /\ (lastOp.op = "constructor"
          /\ (lastOp.config.tag = "undefined" \/ lastOp.config.element.tag = "undefined"))
       => phase = "failed"
    /\ phase = "failed" =>
          /\ thrown # ""
          /\ virtualInputElement = Undefined
          /\ eventEmitter = Undefined
          /\ element = Undefined
          /\ bindings = {}

\* C7 witness: a configuration with settings but no element was refused.
C7_Witness ==
    /\ phase = "failed"
    /\ lastOp.config.tag = "object"
    /\ lastOp.config.acceptsMultipleFiles = Bool(FALSE)

\* C8: setIsClickable sets the flag, nothing but it and the constructor
\* changes the flag, and a click on the host element calls the hidden
\* input's click() once when the flag is true and not at all when it is false.
C8_ClickFollowsIsClickable ==
    [][/\ lastOp'.op = "setIsClickable" => isClickable' = Bool(lastOp'.value)
       /\ lastOp'.op \notin {"setIsClickable", "constructor"} => isClickable' = isClickable
       /\ lastOp'.op = "click" => pickerClicks' = (IF isClickable = Bool(TRUE) THEN 1 ELSE 0)
      ]_vars

\* C8 witness: a click that did not open the picker, the flag being false.
C8_Witness ==
    /\ lastOp.op = "click"
    /\ isClickable = Bool(FALSE)
    /\ pickerClicks = 0

\* C9: the host element has the class 'dragover' after a dragover, and has
\* it neither after a dragleave nor after a drop, whatever appendStatusClasses is.
C9_StatusClassFollowsGesture ==
    /\ lastOp.op = "dragover" => DragOverClass \in element.classes
    /\ lastOp.op = "dragleave" => DragOverClass \notin element.classes
    /\ lastOp.op = "drop" => DragOverClass \notin element.classes

\* C9 witness: the class is on after a dragover with appendStatusClasses false.
C9_Witness ==
    /\ lastOp.op = "dragover"
    /\ appendStatusClasses = Bool(FALSE)
    /\ DragOverClass \in element.classes

\* C10: with the hidden input's `multiple` set from false, a drop or change
\* that delivers a collection of k files stores and emits all k of them.
C10_NoTruncation ==
    (lastOp.op \in FileEvents /\ Delivers(lastOp).tag = "FileList"
        /\ MultipleText = {"false"}) =>
        /\ Len(GetLatestDroppedFiles) = Delivers(lastOp).length
        /\ Len(opEmits) = 1
        /\ Len(opEmits[1].val) = Delivers(lastOp).length
        /\ \A i \in 0 .. Delivers(lastOp).length - 1 :
              /\ GetLatestDroppedFiles[i + 1] = Delivers(lastOp).item[i]
              /\ opEmits[1].val[i + 1] = Delivers(lastOp).item[i]

\* C10 witness: three files dropped on an instance set not to accept several.
C10_Witness ==
    /\ lastOp.op = "drop"
    /\ MultipleText = {"false"}
    /\ Delivers(lastOp).tag = "FileList"
    /\ Delivers(lastOp).length = 3
    /\ Len(GetLatestDroppedFiles) = 3

\* HTMLInputElement.multiple: `multiple` is a boolean attribute, on whenever
\* the attribute is present, whatever its text.
NativeMultiple == \E a \in virtualInputElement.attributes : a[1] = "multiple"

\* C11: after setAcceptsMultipleFiles(b), and after a construction given
\* the boolean b, the hidden input selects several files exactly when b is true.
C11_NativeMultipleFollowsSetting ==
    /\ lastOp.op = "setAcceptsMultipleFiles" => NativeMultiple = lastOp.value
    /\ (lastOp.op = "constructor" /\ phase = "constructed"
          /\ lastOp.config.acceptsMultipleFiles.tag = "boolean")
       => NativeMultiple = lastOp.config.acceptsMultipleFiles.val

\* C13: an event with a drag payload is handled by that payload alone: its
\* file collection is what is stored and emitted, and without one the event
\* fails, whatever the target holds; an event without a drag payload stores
\* and emits its target's file collection.
C13_DragPayloadFirst ==
    lastOp.op \in FileEvents =>
        LET e == lastOp.event IN
        /\ (e.dataTransfer.tag = "object" /\ e.dataTransfer.files.tag = "FileList") =>
              /\ SameFiles(GetLatestDroppedFiles, e.dataTransfer.files)
              /\ Len(opEmits) = 1
              /\ SameFiles(opEmits[1].val, e.dataTransfer.files)
        /\ (e.dataTransfer.tag = "object" /\ e.dataTransfer.files.tag = "undefined") =>
              /\ thrown # ""
              /\ opEmits = <<>>
        /\ (e.dataTransfer.tag = "undefined" /\ e.target.tag = "object"
              /\ e.target.files.tag = "FileList") =>
              /\ SameFiles(GetLatestDroppedFiles, e.target.files)
              /\ Len(opEmits) = 1
              /\ SameFiles(opEmits[1].val, e.target.files)

\* C13 witness: the payload carried <<f1, f2>>, the target <<f2>>, and
\* <<f1, f2>> is held.
C13_Witness ==
    /\ lastOp.op \in FileEvents
    /\ lastOp.event.dataTransfer.tag = "object"
    /\ lastOp.event.target.tag = "object"
    /\ lastOp.event.target.files.tag = "FileList"
    /\ lastOp.event.target.files.length = 1
    /\ GetLatestDroppedFiles = <<"f1", "f2">>

\* The event has no file collection where the handler looks for one.
NoFileCollection(e) ==
    \/ e.dataTransfer.tag = "object" /\ e.dataTransfer.files.tag = "undefined"
    \/ /\ e.dataTransfer.tag = "undefined"
       /\ e.target.tag = "object"
       /\ e.target.files.tag = "undefined"

\* C14: a drop or change without a file collection throws, emits nothing
\* and leaves the list held and the last payload as they were.
C14_NoCollectionFails ==
    [][(lastOp'.op \in FileEvents /\ NoFileCollection(lastOp'.event)) =>
          /\ thrown' # ""
          /\ opEmits' = <<>>
          /\ latestDroppedFiles' = latestDroppedFiles
          /\ lastEmitted' = lastEmitted]_vars

\* C14 witness: a drag payload without files failed, two files being held.
C14_Witness ==
    /\ lastOp.op = "drop"
    /\ lastOp.event.dataTransfer.tag = "object"
    /\ lastOp.event.dataTransfer.files.tag = "undefined"
    /\ thrown # ""
    /\ Len(GetLatestDroppedFiles) = 2

\* C15: a cleanUp call made after an earlier one returns normally and
\* changes neither the installed listeners, nor the list held, nor what the
\* emitter was given.
C15_SecondCleanUpNoOp ==
    [][(lastOp'.op = "cleanUp" /\ cleanedUp) =>
          /\ thrown' = ""
          /\ bindings' = bindings
          /\ latestDroppedFiles' = latestDroppedFiles
          /\ eventEmitter' = eventEmitter
          /\ lastEmitted' = lastEmitted
          /\ onCalls' = onCalls
          /\ opEmits' = <<>>]_vars

\* C15 witness: cleanUp was called again, with two files held.
C15_Witness ==
    /\ lastOp.op = "cleanUp"
    /\ lastOp.again
    /\ thrown = ""
    /\ Len(GetLatestDroppedFiles) = 2

\* C16: during every emit call getLatestDroppedFiles already returns the
\* list being emitted.
C16_StoredBeforeEmitted ==
    /\ Len(emitSaw) = Len(opEmits)
    /\ \A i \in 1 .. Len(opEmits) : emitSaw[i] = opEmits[i].val

\* C16 witness: <<f1, f2>> was emitted by a drop and seen during the emit.
C16_Witness ==
    /\ lastOp.op = "drop"
    /\ Len(opEmits) = 1
    /\ emitSaw = << <<"f1", "f2">> >>

\* C17: promptForFiles calls the hidden input's click() once, whatever
\* isClickable is.
C17_PromptNotGated ==
    lastOp.op = "promptForFiles" => (pickerClicks = 1 /\ thrown = "")

\* C17 witness: promptForFiles opened the picker with isClickable false.
C17_Witness ==
    /\ lastOp.op = "promptForFiles"
    /\ isClickable = Bool(FALSE)
    /\ pickerClicks = 1

\* C18: a drop or change that delivers an empty collection succeeds: one
\* emit call, its payload the empty list, which is the list held and the
\* payload the emitter was given last (what a replay buffer of one holds).
C18_EmptyDeliveryEmitted ==
    (lastOp.op \in FileEvents /\ Delivers(lastOp).tag = "FileList"
        /\ Delivers(lastOp).length = 0) =>
        /\ thrown = ""
        /\ opEmits = << [tag |-> "array", val |-> <<>>] >>
        /\ latestDroppedFiles = [tag |-> "array", val |-> <<>>]
        /\ GetLatestDroppedFiles = <<>>
        /\ lastEmitted = [tag |-> "array", val |-> <<>>]

\* C18 witness: a change with nothing selected was emitted.
C18_Witness ==
    /\ lastOp.op = "change"
    /\ Delivers(lastOp).tag = "FileList"
    /\ Delivers(lastOp).length = 0
    /\ Len(opEmits) = 1
    /\ cleanedUp

\* C19: cleanUp changes nothing but the listeners on the two elements: the
\* list held, the emitter, the listeners it was handed and the payload it
\* was given last stay as they were, as do the settings and the elements.
C19_CleanUpFrame ==
    [][lastOp'.op = "cleanUp" =>
          /\ latestDroppedFiles' = latestDroppedFiles
          /\ eventEmitter' = eventEmitter
          /\ onCalls' = onCalls
          /\ lastEmitted' = lastEmitted
          /\ opEmits' = <<>>
          /\ isClickable' = isClickable
          /\ appendStatusClasses' = appendStatusClasses
          /\ virtualInputElement' = virtualInputElement
          /\ element' = element]_vars

\* C19 witness: cleanUp ran with a listener subscribed and two files emitted.
C19_Witness ==
    /\ lastOp.op = "cleanUp"
    /\ onCalls # {}
    /\ lastEmitted.tag = "array"
    /\ Len(lastEmitted.val) = 2
    /\ GetLatestDroppedFiles = lastEmitted.val

====
